---- MODULE Spec2Model ----
(***************************************************************************)
(* Credential / session authority of go-ddd-clean-architecture:            *)
(* login with step-up OTP, trusted devices, refresh-token rotation, the     *)
(* session-validation gate and logout, over a Redis store whose single      *)
(* commands are atomic, may fail, and whose keys expire.                    *)
(* rand.Read and the HMAC signing of a token do not fail: the branches     *)
(* that handle their errors are left out.                                   *)
(* SpecRL is the rate limiter on its own, in front of a public route and    *)
(* of the protected group; Spec is the handlers with every limiter under    *)
(* its quota.  The routes register their limiters with allow = nil and for  *)
(* no OPTIONS method, so the two bypasses of RateLimit are left out.        *)
(* SpecProfile adds the profile update to login, confirmation, refresh and  *)
(* key expiry; SpecLogin is the limiter of POST /api/login with its max of  *)
(* the source; SpecOTP is GenOTPCode from the bytes it reads, for a 32-bit   *)
(* and a 64-bit int.  SpecReset is AuthHandler.ResetInit and the expiry of  *)
(* its tokens; SpecCodes is login and confirmation from a state with a      *)
(* challenge pending; SpecRLFair is SpecRL with time that keeps passing.    *)
(***************************************************************************)
EXTENDS Integers, Sequences, FiniteSets, TLC

(* ------------------------------ bounds --------------------------------- *)
\* uuid.NewString() is modelled by a counter: MaxSid session ids can be minted.
MaxSid == 4
\* device ids minted by LoginOTPConfirm (rand.Read + base64), as a counter.
MaxDev == 1
\* GenOTPCode returns one of MaxCode codes.
MaxCode == 1
\* a rate-limit counter is followed up to MaxHits increments.
MaxHits == 4
\* the limiters of the public routes (10 and 60 per minute in the source) admit
\* 1..MaxLimit calls per window in the model.
MaxLimit == 2
\* the two limiters of the protected group (300 per minute by IP, 120 per minute
\* by user in the source), scaled down.
GroupIPMax == 2
GroupUserMax == 1
\* the window of every limiter (time.Minute in the source), in milliseconds,
\* and the time that passes in one Tick.
WindowMs == 2000
TickMs == 600
\* genToken returns one of MaxReset tokens, in the model the one after the
\* last token that is still stored.
MaxReset == 4
\* the counter of the login limiter is followed up to MaxLoginHits increments.
MaxLoginHits == 12

(* --------------------------- program constants ------------------------- *)
SessionTTL == 86400
\* the max of the limiter in front of POST /api/login
LoginMax == 10
OTPTTL == 600
TrustedTTL == 2592000

Users == {"u1", "u2"}
\* e-mail addresses a caller may submit: the users' own and one of no account
Emails == Users \cup {"nobody"}

DigitChar == <<"0", "1", "2", "3", "4", "5", "6", "7", "8", "9">>

\* GenOTPCode for the number n read from rand.Read: n % 1000000 printed with %06d
GenOTPCode(n) == [i \in 1..6 |-> DigitChar[(((n % 1000000) \div (10 ^ (6 - i))) % 10) + 1]]

\* --- GenOTPCode from the four bytes of rand.Read, by the width of Go's int ---
\* the byte values followed, and the widths of int of the supported builds
ByteSamples == {0, 1, 127, 128, 255}
IntWidths == {32, 64}
MinInt32 == -2147483647 - 1
\* b[1]<<16 | b[2]<<8 | b[3], the three low bytes (the operands share no bit)
Low24(b) == b[2] * 65536 + b[3] * 256 + b[4]
\* n of line 27 where int has 32 bits: int(b[0])<<24 wraps into the sign bit
OrBytes32(b) == (IF b[1] >= 128 THEN b[1] - 256 ELSE b[1]) * 16777216 + Low24(b)
\* -n in a 32-bit int: the most negative value is its own negation
Neg32(n) == IF n = MinInt32 THEN n ELSE -n
\* Go's n % m (m > 0): the remainder has the sign of n
Rem(n, m) == IF n >= 0 THEN n % m ELSE -((m - (n % m)) % m)
\* the decimal digits of n >= 0, and a string padded with zeros on the left
RECURSIVE Decimal(_)
Decimal(n) ==
  IF n < 10 THEN <<DigitChar[n + 1]>>
  ELSE Decimal(n \div 10) \o <<DigitChar[(n % 10) + 1]>>
RECURSIVE ZeroPad(_, _)
ZeroPad(s, w) == IF Len(s) >= w THEN s ELSE ZeroPad(<<"0">> \o s, w)
\* fmt.Sprintf("%06d", code): the sign counts in the width of six
Sprintf06d(code) ==
  IF code < 0 THEN <<"-">> \o ZeroPad(Decimal(-code), 5)
  ELSE ZeroPad(Decimal(code), 6)
\* the unsigned 32-bit value of the four bytes, modulo 1000000
\* (2^24 = 16 * 1000000 + 777216; the value itself exceeds the checker's integers)
Uint32Mod(b) == (b[1] * 777216 + Low24(b)) % 1000000
\* GenOTPCode for the bytes b on a build whose int has w bits.  With 64 bits n
\* is the unsigned value of the bytes and never negative.
GenOTPCodeOn(b, w) ==
  IF w = 32
  THEN LET n == OrBytes32(b)
       IN Sprintf06d(Rem(IF n < 0 THEN Neg32(n) ELSE n, 1000000))
  ELSE Sprintf06d(Uint32Mod(b))
NoDraw == [b |-> <<>>, w |-> 0, code |-> <<>>]

\* the codes GenOTPCode returns here
Codes == {GenOTPCode(n) : n \in 1..MaxCode}
\* what a caller may submit as a code: a code, a code with a blank before it,
\* six digits that are no code, something that is not six digits
CodeInputs ==
  Codes \cup {<<" ">> \o GenOTPCode(1), GenOTPCode(MaxCode + 1), <<"1", "2", "3", "4", "5">>}

Digits == {DigitChar[i] : i \in 1..10}
Blanks == {" "}
StoreOutcomes == {"ok", "fail"}

(* ------------------------------- state --------------------------------- *)
VARIABLES
  session,   \* Redis hash user:session:<uid>, per user
  otp,       \* Redis string login:otp:<uid>, per user
  trusted,   \* Redis strings login:trusted:<uid>:<dev>
  lapsed,    \* the (uid, dev) whose trusted marker has expired (history)
  nextSid,   \* next fresh session id
  nextDev,   \* next fresh device id
  issued,    \* token pairs handed to a caller in Set-Cookie (history)
  req,       \* a request between two of its store round trips (position and locals)
  resp,      \* the HTTP response written by the step just taken, if any
  gate,      \* outcome of the Auth middleware run by the step just taken, if any
  rl,        \* Redis rate-limit counters: per key the value and the time left (ms)
  lim,       \* what the limiters of the request just served did, and its answer
  rnd,       \* GenOTPCode on its own: the bytes read, the width of int, the code
  reset      \* Redis strings pwd:reset:token:<tok>: the user id, "" when absent

vars == <<session, otp, trusted, lapsed, nextSid, nextDev, issued, req,
          resp, gate, rl, lim, rnd, reset>>

(* --------------------------- values ------------------------------------ *)
NoSession == [present |-> FALSE, sid |-> 0, user_id |-> "", ttl |-> 0]
\* used: a confirmation has succeeded with this stored code and no login has
\* asked for a code since (history; the code outlives its use only when its DEL failed)
NoOTP == [code |-> <<>>, ttl |-> 0, used |-> FALSE]
NoToken == [kind |-> "none", uid |-> "", sid |-> 0, ok |-> FALSE]
NoGate == [ran |-> FALSE, tok |-> NoToken, readOK |-> FALSE, admitted |-> FALSE,
           status |-> 0, msg |-> "", detail |-> "", userID |-> ""]
\* the locals of a handler between two of its store round trips
IdleReq == [op |-> "idle", u |-> "", tok |-> NoToken, code |-> <<>>, ttl |-> 0,
            stale |-> FALSE, replay |-> FALSE, again |-> FALSE]
\* a response, with what the handler knew when it wrote it (code: the code a
\* login sent by e-mail, the code a confirmation accepted)
NoResp == [op |-> "none", status |-> 0, msg |-> "", u |-> "",
           pair |-> 0, link |-> 0, code |-> <<>>, dev |-> 0, setDev |-> 0, cleared |-> {}, tok |-> NoToken,
           credOK |-> FALSE, lookupOK |-> FALSE, badFormat |-> FALSE,
           stale |-> FALSE, replay |-> FALSE, again |-> FALSE]

\* no reset token is stored
NoResets == [t \in 1..MaxReset |-> ""]

\* a cookie whose token does not verify (tampered, expired, garbage)
BadToken == [kind |-> "access", uid |-> "", sid |-> 0, ok |-> FALSE]

\* what a caller can present in a token cookie: either token of any pair ever
\* delivered, a token that does not verify, or no cookie at all
Presentable ==
  {[kind |-> k, uid |-> t.uid, sid |-> t.sid, ok |-> TRUE] :
      t \in issued, k \in {"access", "refresh"}} \cup {BadToken, NoToken}

(* ----------------------- store primitives (Redis) ---------------------- *)
\* HSET key f v ...: creates the hash when absent (then without expiry), sets
\* the given fields and keeps the others.
HSet(rec, upd) ==
  LET base == IF rec.present THEN rec ELSE [NoSession EXCEPT !.present = TRUE]
  IN [f \in DOMAIN base |-> IF f \in DOMAIN upd THEN upd[f] ELSE base[f]]

\* EXPIRE key ttl: sets the remaining lifetime of an existing key.
Expire(rec, ttl) == IF rec.present THEN [rec EXCEPT !.ttl = ttl] ELSE rec

(* ----------------------------- pure helpers ---------------------------- *)
\* UserRepository.GetByEmail / GetByID: a user's e-mail address and id are one
\* name here; "" when there is no such user
GetByEmail(email) == IF email \in Users THEN email ELSE ""
GetByID(id) == IF id \in Users THEN id ELSE ""

\* one secret for the tokens of both kinds
SecretShared(kind) == "devsecret"

\* JWTManager.AccessSecret and RefreshSecret, as config.Load sets them
Secret(kind) ==
  IF kind = "access" THEN "devaccesssecret"
  ELSE IF kind = "refresh" THEN "devrefreshsecret"
  ELSE ""

\* parseToken: the signature is verified with the secret of the expected kind,
\* and expiry with it; a token of the other kind was signed with the other secret.
ParseToken(tok, kind) == tok.ok /\ Secret(tok.kind) = Secret(kind)

\* cookies that do not verify as access tokens: garbage (BadToken), a token
\* forged for a user, and a token of a delivered pair after its exp
Unverifiable ==
  {BadToken}
    \cup {[kind |-> "access", uid |-> u, sid |-> 0, ok |-> FALSE] : u \in Users}
    \cup {[kind |-> "access", uid |-> t.uid, sid |-> t.sid, ok |-> FALSE] : t \in issued}

\* err.Error() of parseToken for a token it refuses
ParseError(tok, kind) ==
  IF tok.ok \/ (tok.uid # "" /\ tok.sid = 0) THEN "token signature is invalid"
  ELSE IF tok.uid = "" THEN "token is malformed"
  ELSE "token has invalid claims: token is expired"

RECURSIVE TrimLeft(_)
TrimLeft(s) == IF s # <<>> /\ Head(s) \in Blanks THEN TrimLeft(Tail(s)) ELSE s

RECURSIVE TrimRight(_)
TrimRight(s) ==
  IF s # <<>> /\ s[Len(s)] \in Blanks THEN TrimRight(SubSeq(s, 1, Len(s) - 1)) ELSE s

TrimSpace(s) == TrimRight(TrimLeft(s))

\* regexp ^[0-9]{6}$
IsOTPFormat(s) == Len(s) = 6 /\ \A i \in 1..Len(s) : s[i] \in Digits

(* --------------------- Service.IssueTokens / Refresh ------------------- *)
\* the HSet + Expire pipeline of IssueTokens
IssueTokensWrite(rec, u, sid) ==
  Expire(HSet(rec, [user_id |-> u, sid |-> sid]), SessionTTL)

\* the HSet + Expire pipeline of Refresh
RefreshWriteRec(rec, sid) == Expire(HSet(rec, [sid |-> sid]), SessionTTL)

\* a Refresh that looks for the session record but not at its sid
RefreshCheckNoSid(tok, readOK, rec) ==
  /\ ParseToken(tok, "refresh")
  /\ GetByID(tok.uid) # ""
  /\ ~(~readOK \/ ~rec.present)

\* a Refresh that does not look at the session record at all
RefreshCheckNoSession(tok, readOK, rec) ==
  /\ ParseToken(tok, "refresh")
  /\ GetByID(tok.uid) # ""

\* Refresh up to and including the session check: TRUE when the call goes on to rotate
RefreshCheck(tok, readOK, rec) ==
  /\ ParseToken(tok, "refresh")
  /\ GetByID(tok.uid) # ""
  /\ ~(~readOK \/ ~rec.present \/ rec.sid # tok.sid)

(* ------------------------------ middleware ----------------------------- *)
Reject(tok, readOK, msg) ==
  [ran |-> TRUE, tok |-> NoToken, readOK |-> FALSE, admitted |-> FALSE,
   status |-> 401, msg |-> msg, detail |-> "", userID |-> ""]

\* the middleware before the sid was compared: cookie, ParseAccessToken, HGetAll
AuthNoSid(tok, readOK, rec) ==
  IF tok = NoToken THEN Reject(tok, FALSE, "missing access token")
  ELSE IF ~ParseToken(tok, "access") THEN Reject(tok, FALSE, "invalid access token")
  ELSE IF ~readOK \/ ~rec.present THEN Reject(tok, readOK, "session not found")
  ELSE [ran |-> TRUE, tok |-> tok, readOK |-> readOK, admitted |-> TRUE,
        status |-> 200, msg |-> "", detail |-> "", userID |-> rec.user_id]

\* middleware.Auth: cookie, ParseAccessToken, HGetAll, sid comparison
Auth(tok, readOK, rec) ==
  IF tok = NoToken THEN Reject(tok, FALSE, "missing access token")
  ELSE IF ~ParseToken(tok, "access")
       THEN [Reject(tok, FALSE, "invalid access token")
                EXCEPT !.detail = ParseError(tok, "access")]
  ELSE IF ~readOK \/ ~rec.present THEN Reject(tok, readOK, "session not found")
  ELSE IF rec.sid = 0 \/ rec.sid # tok.sid THEN Reject(tok, readOK, "session expired")
  ELSE [ran |-> TRUE, tok |-> tok, readOK |-> readOK, admitted |-> TRUE,
        status |-> 200, msg |-> "", detail |-> "", userID |-> rec.user_id]

(* ------------------------------- handlers ------------------------------ *)
\* a check that trusts whatever presents a device cookie
TrustedLookupAnyDevice(u, dev, readOK, tr) == dev # 0 /\ readOK

\* a check that takes a failed GET for a marker
TrustedLookupFailOpen(u, dev, readOK, tr) ==
  dev # 0 /\ (~readOK \/ (\E m \in tr : m.uid = u /\ m.dev = dev))

\* a check whose key leaves the user out
TrustedLookupAnyUser(u, dev, readOK, tr) ==
  dev # 0 /\ readOK /\ (\E m \in tr : m.dev = dev)

\* UserHandler.Login, trusted-device check: the GET is made only with a device
\* cookie, and its error is dropped (v stays "")
TrustedLookup(u, dev, readOK, tr) ==
  dev # 0 /\ readOK /\ (\E m \in tr : m.uid = u /\ m.dev = dev)

\* Manager.Clear: the cookies it expires
ClearCookies == {"access_token", "refresh_token", "device_id"}

\* UserHandler.Logout: the cookies it expires (device_id is kept)
LogoutCookies == {"access_token", "refresh_token"}

\* the checks in another order: the user lookup before the format check
ConfirmCheckLookupFirst(code, u, readOK, stored) ==
  IF u = "" THEN "invalid code"
  ELSE IF ~IsOTPFormat(code) THEN "invalid or expired code"
  ELSE IF ~readOK \/ stored = <<>> THEN "invalid or expired code"
  ELSE IF stored # code THEN "invalid or expired code"
  ELSE ""

\* the checks of LoginOTPConfirm up to the comparison with the stored code:
\* "" when the request goes on to consume the code, else the message of the 401
ConfirmCheck(code, u, readOK, stored) ==
  IF ~IsOTPFormat(code) THEN "invalid or expired code"
  ELSE IF u = "" THEN "invalid code"
  ELSE IF ~readOK \/ stored = <<>> THEN "invalid or expired code"
  ELSE IF stored # code THEN "invalid or expired code"
  ELSE ""

\* a pair has been delivered to the subject of token t after t's own (sids are
\* minted in increasing order, and a pair is delivered in the step that mints it)
Superseded(t) == \E i \in issued : i.uid = t.uid /\ i.sid > t.sid

HasMarker(u, dev) == \E m \in trusted : m.uid = u /\ m.dev = dev

\* the session hash a token's subject names (none for a token without subject)
SessionOf(tok) == IF tok.uid \in Users THEN session[tok.uid] ELSE NoSession

(* ----------------------------- rate limiter ---------------------------- *)
\* client addresses (ipFromCtx)
IPs == {"ip1", "ip2"}

KeyByIP(ip) == <<"rl:ip:", ip>>

\* the user id the Auth middleware put in the context, or the address without one
KeyByUserID(uid, ip) ==
  IF uid # "" THEN <<"rl:user:", uid>> ELSE <<"rl:user:anon:ip:", ip>>

\* the client address and the route's full path
KeyByIPAndPath(ip, path) == <<"rl:path:", path, ":ip:", ip>>

Keys == {KeyByIP(ip) : ip \in IPs}
          \cup {KeyByUserID(uid, ip) : uid \in Users \cup {""}, ip \in IPs}
          \cup {KeyByIPAndPath(ip, "/api/login") : ip \in IPs}

\* an absent key.  A key that exists has n >= 1 and ttl = the milliseconds it
\* has left, or ttl = -1 when it has no expiry.
NoCounter == [n |-> 0, ttl |-> 0]

\* a script that sets the expiry at every increment
IncrExpireAlways(c, window) == [n |-> c.n + 1, ttl |-> window]

\* INCR alone: what INCR followed by a separate EXPIRE leaves behind when the
\* EXPIRE is not carried out
IncrOnly(c, window) == [n |-> c.n + 1, ttl |-> IF c.n = 0 THEN -1 ELSE c.ttl]

\* incrExpireScript, run by the store in one step: INCR, and PEXPIRE when the
\* result is 1
incrExpireScript(c, window) ==
  LET current == c.n + 1
  IN [n |-> current, ttl |-> IF current = 1 THEN window ELSE c.ttl]

\* rdb.TTL(...).Val(): the store answers in whole seconds, rounded, -2 for an
\* absent key and -1 for a key without expiry
TTL(c) ==
  IF c.n = 0 THEN -2
  ELSE IF c.ttl < 0 THEN -1
  ELSE (c.ttl + 500) \div 1000

\* what one limiter did: ran (it was invoked), counted (its script call
\* returned), admitted (it called c.Next()), the max it was registered with, the
\* counter before and after, the X-RateLimit-Limit and X-RateLimit-Remaining
\* headers, and Retry-After
\* (0: no such header)
NotRun == [ran |-> FALSE, counted |-> FALSE, admitted |-> FALSE, key |-> <<>>,
           max |-> 0, before |-> NoCounter, cnt |-> NoCounter,
           limit |-> 0, remaining |-> 0, retryAfter |-> 0]

\* a limiter that rejects the call that reaches max
RateLimitAtMax(store, key, max, window, scriptOK, ttlOK) ==
  LET c == store[key]
      base == [NotRun EXCEPT !.ran = TRUE, !.key = key, !.max = max, !.before = c]
  IN IF ~scriptOK THEN [base EXCEPT !.admitted = TRUE, !.cnt = c]
     ELSE LET c2 == incrExpireScript(c, window)
              ttl == IF ttlOK THEN TTL(c2) ELSE 0
              resetSec == IF ttl > 0 THEN ttl ELSE 0
              over == c2.n >= max
          IN [base EXCEPT !.counted = TRUE, !.cnt = c2, !.admitted = ~over,
                          !.limit = max, !.remaining = max - c2.n,
                          !.retryAfter = IF over /\ resetSec > 0 THEN resetSec ELSE 0]

\* a limiter that rejects when the store call fails
RateLimitFailClosed(store, key, max, window, scriptOK, ttlOK) ==
  LET c == store[key]
      base == [NotRun EXCEPT !.ran = TRUE, !.key = key, !.max = max, !.before = c]
  IN IF ~scriptOK THEN [base EXCEPT !.admitted = FALSE, !.cnt = c]
     ELSE LET c2 == incrExpireScript(c, window)
              ttl == IF ttlOK THEN TTL(c2) ELSE 0
              resetSec == IF ttl > 0 THEN ttl ELSE 0
              over == c2.n > max
          IN [base EXCEPT !.counted = TRUE, !.cnt = c2, !.admitted = ~over,
                          !.limit = max, !.remaining = max - c2.n,
                          !.retryAfter = IF over /\ resetSec > 0 THEN resetSec ELSE 0]

\* a limiter whose X-RateLimit-Remaining never goes below zero
RateLimitClamped(store, key, max, window, scriptOK, ttlOK) ==
  LET c == store[key]
      base == [NotRun EXCEPT !.ran = TRUE, !.key = key, !.max = max, !.before = c]
  IN IF ~scriptOK THEN [base EXCEPT !.admitted = TRUE, !.cnt = c]
     ELSE LET c2 == incrExpireScript(c, window)
              ttl == IF ttlOK THEN TTL(c2) ELSE 0
              resetSec == IF ttl > 0 THEN ttl ELSE 0
              over == c2.n > max
          IN [base EXCEPT !.counted = TRUE, !.cnt = c2, !.admitted = ~over,
                          !.limit = max,
                          !.remaining = IF c2.n > max THEN 0 ELSE max - c2.n,
                          !.retryAfter = IF over /\ resetSec > 0 THEN resetSec ELSE 0]

\* RateLimit(rdb, max, window, keyFn, nil) for a request whose key is `key`:
\* the script call (an error: c.Next(), nothing counted), the TTL read (its
\* error dropped), the headers, and 429 with c.Abort() when count > max.
RateLimit(store, key, max, window, scriptOK, ttlOK) ==
  LET c == store[key]
      base == [NotRun EXCEPT !.ran = TRUE, !.key = key, !.max = max, !.before = c]
  IN IF ~scriptOK THEN [base EXCEPT !.admitted = TRUE, !.cnt = c]
     ELSE LET c2 == incrExpireScript(c, window)
              ttl == IF ttlOK THEN TTL(c2) ELSE 0
              resetSec == IF ttl > 0 THEN ttl ELSE 0
              over == c2.n > max
          IN [base EXCEPT !.counted = TRUE, !.cnt = c2, !.admitted = ~over,
                          !.limit = max, !.remaining = max - c2.n,
                          !.retryAfter = IF over /\ resetSec > 0 THEN resetSec ELSE 0]

\* a login limiter of 5 per window, counted per client address and path
loginLimiterPerPath(store, ip, scriptOK, ttlOK) ==
  RateLimit(store, KeyByIPAndPath(ip, "/api/login"), 5, WindowMs, scriptOK, ttlOK)

\* loginLimiter of Module.Register, for a request from ip: 10 per window,
\* counted on the key of the client address alone
loginLimiter(store, ip, scriptOK, ttlOK) ==
  RateLimit(store, KeyByIP(ip), LoginMax, WindowMs, scriptOK, ttlOK)

\* a chain in which a rejecting limiter does not stop the request
NoAbort(r1, r2) == r2

\* two middlewares in a row: the second runs when the first called c.Next(),
\* and not when it called c.Abort()
AbortOrNext(r1, r2) == IF r1.admitted THEN r2 ELSE NotRun

\* the store after a limiter has run
Counted(store, r) ==
  IF r.ran THEN [store EXCEPT ![r.key] = r.cnt] ELSE store

NoLim == [route |-> "none", ip |-> "", l1 |-> NotRun, l2 |-> NotRun,
          handler |-> FALSE, crashed |-> FALSE, status |-> 0, msg |-> "",
          retryAfter |-> 0]

\* no response is being written: the step before this one has been answered
Quiet == resp = NoResp /\ gate = NoGate /\ lim = NoLim

Init ==
  /\ session = [u \in Users |-> NoSession]
  /\ otp = [u \in Users |-> NoOTP]
  /\ trusted = {}
  /\ lapsed = {}
  /\ nextSid = 1
  /\ nextDev = 1
  /\ issued = {}
  /\ req = IdleReq
  /\ resp = NoResp
  /\ gate = NoGate
  /\ rl = [k \in Keys |-> NoCounter]
  /\ lim = NoLim
  /\ rnd = NoDraw
  /\ reset = NoResets

\* a verification that looks the user up and takes any password
AuthenticateAnyPassword(email, pw) ==
  IF GetByEmail(email) = "" THEN "invalid credentials" ELSE ""

\* a verification that tells an unknown e-mail from a wrong password
AuthenticateTelling(email, pw) ==
  IF GetByEmail(email) = "" THEN "user not found"
  ELSE IF ~pw THEN "invalid credentials"
  ELSE ""

\* Service.Authenticate and the error branch of UserHandler.Login: the message
\* of the 401, "" when the credentials are right (pw: the password matches)
Authenticate(email, pw) ==
  IF GetByEmail(email) = "" THEN "invalid credentials"
  ELSE IF ~pw THEN "invalid credentials"
  ELSE ""

(* ---- UserHandler.Login ---- *)
\* The whole handler.  h.Svc.Login: Authenticate, then IssueTokens (a fresh sid,
\* the HSet + Expire pipeline, its error only logged).  Then the trusted-device
\* GET and either the token cookies, or 503 without a publisher, or GenOTPCode,
\* SET login:otp:<uid> for 10 minutes (error dropped) and 202.
Login ==
  /\ Quiet
  /\ \E email \in Emails, pw \in BOOLEAN :
       LET u == GetByEmail(email) IN
       IF Authenticate(email, pw) # ""
       THEN /\ resp' = [NoResp EXCEPT !.op = "login", !.status = 401,
                                      !.msg = Authenticate(email, pw)]
            /\ UNCHANGED <<session, nextSid, otp, issued>>
       ELSE /\ nextSid <= MaxSid
            /\ nextSid' = nextSid + 1
            /\ \E ws \in StoreOutcomes :
                 session' = IF ws = "ok"
                            THEN [session EXCEPT ![u] = IssueTokensWrite(@, u, nextSid)]
                            ELSE session
            /\ \E dev \in 0..(nextDev - 1), rd \in StoreOutcomes :
                 LET out == [NoResp EXCEPT !.op = "login", !.u = u,
                                           !.credOK = (u # "" /\ pw),
                                           !.dev = dev,
                                           !.lookupOK = (dev # 0 /\ rd = "ok")]
                 IN IF TrustedLookup(u, dev, rd = "ok", trusted)
                    THEN /\ resp' = [out EXCEPT !.status = 200, !.msg = "login successful",
                                                !.pair = nextSid]
                         /\ issued' = issued \cup {[uid |-> u, sid |-> nextSid]}
                         /\ UNCHANGED otp
                    ELSE \E pubOK \in BOOLEAN :
                         IF ~pubOK
                         THEN /\ resp' = [out EXCEPT !.status = 503,
                                                     !.msg = "otp unavailable"]
                              /\ UNCHANGED <<issued, otp>>
                         ELSE /\ \E code \in Codes, w \in StoreOutcomes :
                                   /\ otp' = IF w = "ok"
                                             THEN [otp EXCEPT ![u] =
                                                     [code |-> code, ttl |-> OTPTTL,
                                                      used |-> FALSE]]
                                             ELSE [otp EXCEPT ![u].used = FALSE]
                                   /\ resp' = [out EXCEPT !.status = 202,
                                                          !.msg = "otp required",
                                                          !.code = code]
                              /\ UNCHANGED issued
  /\ gate' = NoGate
  /\ UNCHANGED <<trusted, lapsed, nextDev, req>>
  /\ UNCHANGED <<rl, lim, rnd, reset>>

(* ---- UserHandler.LoginOTPConfirm ---- *)
\* The handler from DEL login:otp:<uid> on, for user u whose code passed the
\* comparison: DEL (error dropped), IssueTokens, with remember_device a fresh
\* device id and SET login:trusted:<uid>:<dev> "1" for 30 days (error dropped) and
\* the device_id cookie, then the token cookies and the 200.
ConfirmAccept(u, code, replay, again) ==
  /\ nextSid <= MaxSid
  /\ \E rem \in BOOLEAN, wd \in StoreOutcomes, ws \in StoreOutcomes, wt \in StoreOutcomes :
       LET dev == IF rem THEN nextDev ELSE 0
       IN /\ rem => nextDev <= MaxDev
          /\ otp' = IF wd = "ok" THEN [otp EXCEPT ![u] = NoOTP]
                     ELSE IF otp[u].code = code THEN [otp EXCEPT ![u].used = TRUE]
                     ELSE otp
          /\ session' = IF ws = "ok"
                        THEN [session EXCEPT ![u] = IssueTokensWrite(@, u, nextSid)]
                        ELSE session
          /\ trusted' = IF rem /\ wt = "ok"
                        THEN trusted \cup {[uid |-> u, dev |-> dev, ttl |-> TrustedTTL]}
                        ELSE trusted
          /\ nextDev' = IF rem THEN nextDev + 1 ELSE nextDev
          /\ resp' = [NoResp EXCEPT !.op = "confirm", !.status = 200,
                                    !.msg = "login successful", !.u = u,
                                    !.pair = nextSid, !.setDev = dev,
                                    !.code = code,
                                    !.replay = replay, !.again = again]
  /\ issued' = issued \cup {[uid |-> u, sid |-> nextSid]}
  /\ nextSid' = nextSid + 1
  /\ gate' = NoGate
  /\ UNCHANGED lapsed

\* a handler that withdraws the pending challenge when it rejects a confirmation
ConfirmRejectBurns(store, u) ==
  IF u \in Users THEN [store EXCEPT ![u] = NoOTP] ELSE store

\* the login:otp keys after a rejected confirmation of u ("" for no such user):
\* every 401 of LoginOTPConfirm returns before the handler writes anything
ConfirmReject(store, u) == store

\* The whole handler, no other request's store command in between.  A confirmation
\* of the same code that is between its GET and its DEL is marked (again): it got
\* past the comparison before this one consumed the code.
Confirm ==
  /\ Quiet
  /\ \E email \in Emails, raw \in CodeInputs, rd \in StoreOutcomes :
       LET code == TrimSpace(raw)
           u == GetByEmail(email)
           stored == IF u = "" THEN <<>> ELSE otp[u].code
           msg == ConfirmCheck(code, u, rd = "ok", stored)
       IN IF msg # ""
          THEN /\ resp' = [NoResp EXCEPT !.op = "confirm", !.status = 401, !.msg = msg,
                                         !.badFormat = ~IsOTPFormat(code)]
               /\ otp' = ConfirmReject(otp, u)
               /\ gate' = NoGate
               /\ UNCHANGED <<session, trusted, lapsed, nextSid, nextDev, issued, req>>
          ELSE /\ ConfirmAccept(u, code, otp[u].used, FALSE)
               /\ req' = IF req.op = "confirm" /\ req.u = u /\ req.code = code
                         THEN [req EXCEPT !.again = TRUE]
                         ELSE req
  /\ UNCHANGED <<rl, lim, rnd, reset>>

\* The handler of a request that other requests interleave, up to the comparison:
\* format check, GetUserByEmail, GET login:otp:<uid>, comparison
ConfirmGet ==
  /\ Quiet
  /\ req.op = "idle"
  /\ \E u \in Users, code \in Codes :
       /\ ConfirmCheck(code, u, TRUE, otp[u].code) = ""
       /\ req' = [IdleReq EXCEPT !.op = "confirm", !.u = u, !.code = code,
                                 !.replay = otp[u].used]
  /\ UNCHANGED <<session, otp, trusted, lapsed, nextSid, nextDev, issued, resp, gate>>
  /\ UNCHANGED <<rl, lim, rnd, reset>>

\* ... and the rest of it
ConfirmConsume ==
  /\ Quiet
  /\ req.op = "confirm"
  /\ ConfirmAccept(req.u, req.code, req.replay, req.again)
  /\ req' = IdleReq
  /\ UNCHANGED <<rl, lim, rnd, reset>>

(* ---- UserHandler.Refresh / Service.Refresh ---- *)
\* Service.Refresh from the rotation on, for a token that passed the session
\* check: a fresh sid, the HSet + Expire pipeline (error dropped), the cookies.
RefreshAccept(tok, stale, again) ==
  /\ nextSid <= MaxSid
  /\ \E w \in StoreOutcomes :
       session' = IF w = "ok"
                  THEN [session EXCEPT ![tok.uid] = RefreshWriteRec(@, nextSid)]
                  ELSE session
  /\ resp' = [NoResp EXCEPT !.op = "refresh", !.status = 200,
                            !.msg = "token refreshed", !.u = tok.uid, !.tok = tok,
                            !.pair = nextSid, !.stale = stale, !.again = again]
  /\ issued' = issued \cup {[uid |-> tok.uid, sid |-> nextSid]}
  /\ nextSid' = nextSid + 1
  /\ gate' = NoGate
  /\ UNCHANGED <<otp, trusted, lapsed, nextDev>>

\* The whole handler, no other request's store command in between.  A Refresh of
\* the same token that is between its HGetAll and its pipeline is marked (again):
\* it got past the session check before this one rotated.
Refresh ==
  /\ Quiet
  /\ \E tok \in Presentable, rd \in StoreOutcomes :
       LET out == [NoResp EXCEPT !.op = "refresh", !.status = 401]
       IN IF tok = NoToken
          THEN /\ resp' = [out EXCEPT !.msg = "missing refresh token"]
               /\ gate' = NoGate
               /\ UNCHANGED <<session, otp, trusted, lapsed, nextSid, nextDev, issued, req>>
          ELSE IF ~RefreshCheck(tok, rd = "ok", SessionOf(tok))
          THEN /\ resp' = [out EXCEPT !.msg = "invalid refresh token"]
               /\ gate' = NoGate
               /\ UNCHANGED <<session, otp, trusted, lapsed, nextSid, nextDev, issued, req>>
          ELSE /\ RefreshAccept(tok, Superseded(tok), FALSE)
               /\ req' = IF req.op = "refresh" /\ req.tok = tok
                         THEN [req EXCEPT !.again = TRUE]
                         ELSE req
  /\ UNCHANGED <<rl, lim, rnd, reset>>

\* The call of a request that other requests interleave, up to the session check:
\* cookie, ParseRefreshToken, GetByID, HGetAll and the sid comparison
RefreshRead ==
  /\ Quiet
  /\ req.op = "idle"
  /\ \E tok \in Presentable :
       /\ tok # NoToken
       /\ RefreshCheck(tok, TRUE, SessionOf(tok))
       /\ req' = [IdleReq EXCEPT !.op = "refresh", !.tok = tok, !.u = tok.uid,
                                 !.stale = Superseded(tok)]
  /\ UNCHANGED <<session, otp, trusted, lapsed, nextSid, nextDev, issued, resp, gate>>
  /\ UNCHANGED <<rl, lim, rnd, reset>>

\* ... and the rest of it
RefreshWrite ==
  /\ Quiet
  /\ req.op = "refresh"
  /\ RefreshAccept(req.tok, req.stale, req.again)
  /\ req' = IdleReq
  /\ UNCHANGED <<rl, lim, rnd, reset>>

(* ---- protected routes: middleware.Auth in front of the handler ---- *)
\* GET /api/profile and the like: the gate, then a handler that leaves the store alone
Protected ==
  /\ Quiet
  /\ \E tok \in Presentable, rd \in StoreOutcomes :
       gate' = Auth(tok, rd = "ok", SessionOf(tok))
  /\ resp' = NoResp
  /\ UNCHANGED <<session, otp, trusted, lapsed, nextSid, nextDev, issued, req>>
  /\ UNCHANGED <<rl, lim, rnd, reset>>

\* POST /api/logout: the gate, then UserHandler.Logout
Logout ==
  /\ Quiet
  /\ \E tok \in Presentable, rd \in StoreOutcomes :
       LET g == Auth(tok, rd = "ok", SessionOf(tok))
       IN /\ g.admitted
          /\ gate' = g
          /\ resp' = [NoResp EXCEPT !.op = "logout", !.status = 200, !.msg = "logged out",
                                    !.u = g.userID, !.cleared = LogoutCookies]
  /\ UNCHANGED <<session, otp, trusted, lapsed, nextSid, nextDev, issued, req>>
  /\ UNCHANGED <<rl, lim, rnd, reset>>

(* ---- key expiry in the store ---- *)
ExpireSession(u) ==
  /\ Quiet
  /\ session[u].present /\ session[u].ttl > 0
  /\ session' = [session EXCEPT ![u] = NoSession]
  /\ UNCHANGED <<otp, trusted, lapsed, nextSid, nextDev, issued, req, resp, gate>>
  /\ UNCHANGED <<rl, lim, rnd, reset>>

ExpireOTP(u) ==
  /\ Quiet
  /\ otp[u] # NoOTP /\ otp[u].ttl > 0
  /\ otp' = [otp EXCEPT ![u] = NoOTP]
  /\ UNCHANGED <<session, trusted, lapsed, nextSid, nextDev, issued, req, resp, gate>>
  /\ UNCHANGED <<rl, lim, rnd, reset>>

ExpireTrusted(m) ==
  /\ Quiet
  /\ m \in trusted /\ m.ttl > 0
  /\ trusted' = trusted \ {m}
  /\ lapsed' = lapsed \cup {[uid |-> m.uid, dev |-> m.dev]}
  /\ UNCHANGED <<session, otp, nextSid, nextDev, issued, req, resp, gate>>
  /\ UNCHANGED <<rl, lim, rnd, reset>>

\* the response goes out; the next step starts from a clean slate
Deliver ==
  /\ ~Quiet
  /\ resp' = NoResp /\ gate' = NoGate /\ lim' = NoLim
  /\ UNCHANGED <<session, otp, trusted, lapsed, nextSid, nextDev, issued, req, rl, rnd, reset>>

Next ==
  \/ Login
  \/ Confirm \/ ConfirmGet \/ ConfirmConsume
  \/ Refresh \/ RefreshRead \/ RefreshWrite
  \/ Protected \/ Logout
  \/ \E u \in Users : ExpireSession(u) \/ ExpireOTP(u)
  \/ \E m \in trusted : ExpireTrusted(m)
  \/ Deliver

Spec == Init /\ [][Next]_vars

(* ------------------- the rate-limited routes on their own --------------- *)
\* The state after u1 has logged in and confirmed the code: the pair with sid 2
\* is u1's, and no counter exists.
InitRL ==
  /\ session = [u \in Users |-> IF u = "u1" THEN IssueTokensWrite(NoSession, "u1", 2)
                                ELSE NoSession]
  /\ otp = [u \in Users |-> NoOTP]
  /\ trusted = {}
  /\ lapsed = {}
  /\ nextSid = 3
  /\ nextDev = 1
  /\ issued = {[uid |-> "u1", sid |-> 2]}
  /\ req = IdleReq
  /\ resp = NoResp
  /\ gate = NoGate
  /\ rl = [k \in Keys |-> NoCounter]
  /\ lim = NoLim
  /\ rnd = NoDraw
  /\ reset = NoResets

\* the answer of a chain whose limiters did r1 and r2
Answer(route, ip, r1, r2, crashed) ==
  LET rej == IF r1.ran /\ ~r1.admitted THEN r1
             ELSE IF r2.ran /\ ~r2.admitted THEN r2 ELSE NotRun
  IN [NoLim EXCEPT !.route = route, !.ip = ip, !.l1 = r1, !.l2 = r2,
                   !.crashed = crashed,
                   !.handler = ~crashed /\ ~rej.ran,
                   !.status = IF crashed THEN 0 ELSE IF rej.ran THEN 429 ELSE 200,
                   !.msg = IF ~crashed /\ rej.ran THEN "rate limit exceeded" ELSE "",
                   !.retryAfter = IF crashed THEN 0 ELSE rej.retryAfter]

\* a public route: one limiter keyed by the client address in front of the
\* handler (POST /api/login, POST /api/refresh, GET /debug/vars).  The process may
\* die after the script call: the counter is written, nothing is answered.
PublicRoute ==
  /\ Quiet
  /\ \E ip \in IPs, max \in 1..MaxLimit, s \in StoreOutcomes, t \in StoreOutcomes,
        crash \in BOOLEAN :
       LET r == RateLimit(rl, KeyByIP(ip), max, WindowMs, s = "ok", t = "ok")
       IN /\ rl[KeyByIP(ip)].n < MaxHits
          /\ rl' = Counted(rl, r)
          /\ lim' = Answer("public", ip, r, NotRun, crash)
  /\ gate' = NoGate
  /\ UNCHANGED <<session, otp, trusted, lapsed, nextSid, nextDev, issued, req, resp, rnd, reset>>

\* a route of the protected group: middleware.Auth, then the limiter keyed by
\* the client address, then the limiter keyed by the user id, then the handler.
GroupRoute ==
  /\ Quiet
  /\ \E tok \in Presentable \cup Unverifiable, rd \in StoreOutcomes, ip \in IPs :
       LET g == Auth(tok, rd = "ok", SessionOf(tok))
       IN /\ gate' = g
          /\ IF ~g.admitted
             THEN /\ rl' = rl
                  /\ lim' = [NoLim EXCEPT !.route = "group", !.ip = ip,
                                          !.status = g.status, !.msg = g.msg]
             ELSE \E s1 \in StoreOutcomes, t1 \in StoreOutcomes,
                     s2 \in StoreOutcomes, t2 \in StoreOutcomes :
                  LET r1 == RateLimit(rl, KeyByIP(ip), GroupIPMax, WindowMs,
                                      s1 = "ok", t1 = "ok")
                      r2 == AbortOrNext(r1, RateLimit(rl, KeyByUserID(g.userID, ip),
                                                      GroupUserMax, WindowMs,
                                                      s2 = "ok", t2 = "ok"))
                  IN /\ rl[KeyByIP(ip)].n < MaxHits
                     /\ rl[KeyByUserID(g.userID, ip)].n < MaxHits
                     /\ rl' = Counted(Counted(rl, r1), r2)
                     /\ lim' = Answer("group", ip, r1, r2, FALSE)
  /\ UNCHANGED <<session, otp, trusted, lapsed, nextSid, nextDev, issued, req, resp, rnd, reset>>

\* TickMs milliseconds pass: every counter with an expiry loses them, and is
\* gone when none are left
Tick ==
  /\ Quiet
  /\ \E k \in Keys : rl[k].n > 0 /\ rl[k].ttl > 0
  /\ rl' = [k \in Keys |->
              IF rl[k].n > 0 /\ rl[k].ttl > 0
              THEN IF rl[k].ttl > TickMs THEN [rl[k] EXCEPT !.ttl = @ - TickMs]
                   ELSE NoCounter
              ELSE rl[k]]
  /\ UNCHANGED <<session, otp, trusted, lapsed, nextSid, nextDev, issued, req, resp,
                 gate, lim, rnd, reset>>

NextRL == PublicRoute \/ GroupRoute \/ Tick \/ Deliver

SpecRL == InitRL /\ [][NextRL]_vars

(* ------------- PUT /api/profile next to Refresh and key expiry ---------- *)
\* rdb.TTL(...).Result() of a session key, in seconds: -2 for an absent key, -1
\* for a key without expiry; 0 stands for a failed read (tErr # nil)
SessionTTLRead(rec, readOK) ==
  IF ~readOK THEN 0
  ELSE IF ~rec.present THEN -2
  ELSE IF rec.ttl = 0 THEN -1
  ELSE rec.ttl

\* the pipeline of Service.UpdateProfile: HSet of name, avatar_url and
\* updated_at, and Expire with the lifetime read before, when that is positive
ProfileWriteRec(rec, ttl) ==
  LET h == HSet(rec, [name |-> "n", avatar_url |-> "a"])
  IN IF ttl > 0 THEN Expire(h, ttl) ELSE h

\* the gate in front of PUT /api/profile admits the request (the limiters
\* behind it are under their quota)
ProfileGate ==
  /\ Quiet
  /\ req.op = "idle"
  /\ \E tok \in Presentable, rd \in StoreOutcomes :
       LET g == Auth(tok, rd = "ok", SessionOf(tok))
       IN /\ g.admitted
          /\ req' = [IdleReq EXCEPT !.op = "profile", !.u = g.userID, !.tok = tok]
  /\ UNCHANGED <<session, otp, trusted, lapsed, nextSid, nextDev, issued, resp, gate,
                 rl, lim, rnd, reset>>

\* UserHandler.UpdateProfile up to the TTL read of Service.UpdateProfile: the
\* user is looked up and updated in the database, then the lifetime of the
\* session key is read
ProfileTTL ==
  /\ Quiet
  /\ req.op = "profile"
  /\ IF GetByID(req.u) = ""
     THEN /\ resp' = [NoResp EXCEPT !.op = "profile", !.status = 400,
                                    !.msg = "failed to update profile", !.u = req.u]
          /\ req' = IdleReq
     ELSE /\ \E rd \in StoreOutcomes :
               req' = [req EXCEPT !.op = "profileWrite",
                                  !.ttl = SessionTTLRead(session[req.u], rd = "ok")]
          /\ resp' = resp
  /\ UNCHANGED <<session, otp, trusted, lapsed, nextSid, nextDev, issued, gate, rl, lim, rnd, reset>>

\* ... and its pipeline (error only logged), then the 200
ProfileWrite ==
  /\ Quiet
  /\ req.op = "profileWrite"
  /\ \E w \in StoreOutcomes :
       session' = IF w = "ok"
                  THEN [session EXCEPT ![req.u] = ProfileWriteRec(@, req.ttl)]
                  ELSE session
  /\ resp' = [NoResp EXCEPT !.op = "profile", !.status = 200,
                            !.msg = "profile updated", !.u = req.u]
  /\ req' = IdleReq
  /\ UNCHANGED <<otp, trusted, lapsed, nextSid, nextDev, issued, gate, rl, lim, rnd, reset>>

\* half of the 24 hours of a session key go by while no request is being served
AgeSession(u) ==
  /\ Quiet
  /\ req.op = "idle"
  /\ session[u].present /\ session[u].ttl = SessionTTL
  /\ session' = [session EXCEPT ![u].ttl = SessionTTL \div 2]
  /\ UNCHANGED <<otp, trusted, lapsed, nextSid, nextDev, issued, req, resp, gate,
                 rl, lim, rnd, reset>>

NextProfile ==
  \/ ProfileGate \/ ProfileTTL \/ ProfileWrite
  \/ Login \/ Confirm
  \/ Refresh \/ RefreshRead \/ RefreshWrite
  \/ \E u \in Users : ExpireSession(u) \/ AgeSession(u)
  \/ Deliver

SpecProfile == Init /\ [][NextProfile]_vars

(* ============================== claims ================================= *)

\* C1: once a login or refresh has delivered a newer pair to a principal, a
\* Refresh call that starts afterwards with a refresh token of an earlier pair
\* of that principal is rejected: no such call returns a pair.
C1_EarlierTokenRejected ==
  (resp.op = "refresh" /\ resp.status = 200) => ~resp.stale

\* C2: of two Refresh calls with the same refresh token whose session read and
\* session write interleave, at most one returns a pair: no call returns a pair
\* when another call with the same token returned one after this call's read.
C2_AtMostOneWinner ==
  (resp.op = "refresh" /\ resp.status = 200) => ~resp.again

\* C3: the gate admits only a token that verifies as an access token, whose
\* principal's session record was read successfully, exists, and carries a
\* non-empty sid equal to the token's; with a failed read or no record it
\* rejects with 401, whatever the token.
C3_GateAdmitsOnlyLiveSession ==
  /\ gate.admitted =>
       /\ ParseToken(gate.tok, "access")
       /\ gate.readOK
       /\ SessionOf(gate.tok).present
       /\ SessionOf(gate.tok).sid # 0
       /\ SessionOf(gate.tok).sid = gate.tok.sid
  /\ (gate.ran /\ ~gate.admitted) => gate.status = 401
  /\ \A t \in Presentable, rd \in BOOLEAN :
       (~rd \/ ~SessionOf(t).present) =>
          LET g == Auth(t, rd, SessionOf(t)) IN ~g.admitted /\ g.status = 401

\* C3 witness: the gate has admitted a request
C3_Admitted == gate.ran /\ gate.admitted /\ gate.tok.sid = SessionOf(gate.tok).sid

\* token t would be accepted now, by the gate or by Refresh, for some outcome of the read
Accepts(t) ==
  \E rd \in BOOLEAN : Auth(t, rd, SessionOf(t)).admitted \/ RefreshCheck(t, rd, SessionOf(t))

\* C4: at every instant the tokens of one principal that the gate or Refresh
\* accept all carry the same sid, and none carries a sid earlier than the one
\* the principal's session record holds.
C4_OneLiveSid ==
  /\ \A t1, t2 \in Presentable :
       (t1.uid = t2.uid /\ Accepts(t1) /\ Accepts(t2)) => t1.sid = t2.sid
  /\ \A t \in Presentable : Accepts(t) => ~(SessionOf(t).sid > t.sid)

\* C4 witness: the gate has admitted a token of a principal who also holds a
\* pair with an earlier sid, which is accepted no more
C4_NewerAdmittedOlderDead ==
  /\ gate.admitted
  /\ \E t \in Presentable : t.uid = gate.tok.uid /\ t.sid < gate.tok.sid /\ ~Accepts(t)

\* C5 as stated: a login with correct credentials and no valid marker for the
\* presented device ends in challenge-pending (202) and delivers no token.
C5_ChallengeAlways ==
  (resp.op = "login" /\ resp.credOK /\ ~HasMarker(resp.u, resp.dev)) =>
     /\ resp.status = 202
     /\ resp.pair = 0

\* C5 amended: such a login ends in challenge-pending (202 "otp required") or,
\* on a server without a publisher, in 503 "otp unavailable"; either way no
\* token is delivered, and the pair minted for the attempt is handed to nobody.
C5_ChallengeOrUnavailable ==
  (resp.op = "login" /\ resp.credOK /\ ~HasMarker(resp.u, resp.dev)) =>
     /\ \/ resp.status = 202 /\ resp.msg = "otp required"
        \/ resp.status = 503 /\ resp.msg = "otp unavailable"
     /\ resp.pair = 0
     /\ \A i \in issued : i.sid # nextSid - 1

\* C5 witness: correct credentials, a device cookie without marker, challenge-pending
C5_Challenged ==
  /\ resp.op = "login" /\ resp.credOK /\ ~HasMarker(resp.u, resp.dev)
  /\ resp.status = 202 /\ resp.dev # 0

\* C6: once a confirmation with the stored code has succeeded, and no login has
\* asked for a code since, no later confirmation with that code succeeds.
C6_CodeSingleUse ==
  (resp.op = "confirm" /\ resp.status = 200) => ~resp.replay

\* C7: of the confirmations of one code whose GET and DEL interleave, one
\* succeeds: no confirmation succeeds when another one of the same code
\* succeeded after this one's comparison.
C7_OneConfirmationWins ==
  (resp.op = "confirm" /\ resp.status = 200) => ~resp.again

C9_MarkerOnlyByConfirm ==
  /\ [][\A m \in trusted' \ trusted :
          /\ resp'.op = "confirm" /\ resp'.status = 200
          /\ resp'.u = m.uid /\ resp'.setDev = m.dev
          /\ m.dev = nextDev /\ nextDev' = nextDev + 1]_vars
  /\ []((resp.op = "login" /\ resp.status = 200) =>
          \E m \in trusted : m.uid = resp.u /\ m.dev = resp.dev)

\* C9 witness: a principal presents a device that carries another principal's
\* marker, and is challenged
C9_OtherPrincipalChallenged ==
  /\ resp.op = "login" /\ resp.credOK /\ resp.status = 202
  /\ \E m \in trusted : m.dev = resp.dev /\ m.uid # resp.u

\* C10: the step of a Logout expires the access_token and refresh_token
\* cookies and nothing else: not the device_id cookie, and no marker in the store.
C10_LogoutKeepsTrust ==
  [][resp'.op = "logout" =>
       /\ resp'.cleared = {"access_token", "refresh_token"}
       /\ trusted' = trusted]_vars

\* C10 witness: a Logout answered while a marker is alive
C10_LoggedOutWithMarker ==
  resp.op = "logout" /\ resp.status = 200 /\ trusted # {}

\* C11: a rejected confirmation has the same status and the same message
\* whatever the cause: no such principal, no pending or an expired challenge,
\* or a wrong code.
C11_OneRejection ==
  (resp.op = "confirm" /\ resp.status # 200) =>
     resp.status = 401 /\ resp.msg = "invalid or expired code"

C13_StoreFailureSignalled ==
  /\ (resp.op = "login" /\ resp.status = 202) => otp[resp.u].code # <<>>
  /\ (resp.op = "login" /\ resp.credOK /\ resp.dev # 0 /\ ~resp.lookupOK) =>
        resp.status = 503 /\ resp.pair = 0

\* C14: counted from an absent counter, a call of the limiter is admitted
\* exactly when fewer than max calls came before it in the window, and a
\* rejected call has incremented the counter.
C14_FirstMaxAdmitted ==
  \A r \in {lim.l1, lim.l2} : (r.ran /\ ~lim.crashed) =>
     /\ r.admitted <=> r.before.n < r.max
     /\ ~r.admitted => r.cnt.n = r.before.n + 1

\* C14, amended: a call whose increment went through has added one to the
\* counter, whether admitted or rejected, and is admitted exactly when the
\* counter held fewer than max before it; a rejected call is answered 429.
C14_CountedFirstMaxAdmitted ==
  /\ \A r \in {lim.l1, lim.l2} : (r.ran /\ r.counted) =>
        /\ r.cnt.n = r.before.n + 1
        /\ rl[r.key] = r.cnt
        /\ ~lim.crashed => (r.admitted <=> r.before.n < r.max)
  /\ \A r \in {lim.l1, lim.l2} : (r.ran /\ ~r.admitted /\ ~lim.crashed) =>
        lim.status = 429 /\ ~lim.handler

\* C14 witness: a call is rejected after an earlier call was rejected already
C14_RejectedAgain ==
  /\ lim.route = "public" /\ ~lim.crashed
  /\ lim.l1.counted /\ ~lim.l1.admitted
  /\ lim.l1.before.n = lim.l1.max + 1

\* C15: the increment that creates a counter sets its value to 1 and its
\* lifetime to the window; an increment of an existing counter leaves the
\* lifetime as it was.
C15_ExpirySetOnce ==
  /\ [][\A k \in Keys : (rl[k].n = 0 /\ rl'[k].n > 0) =>
           rl'[k].n = 1 /\ rl'[k].ttl = WindowMs]_vars
  /\ [][\A k \in Keys : (rl[k].n > 0 /\ rl'[k].n > rl[k].n) =>
           rl'[k].ttl = rl[k].ttl]_vars

\* C15 witness: an existing counter with part of its window gone has been
\* incremented
C15_IncrementedLate ==
  /\ lim.l1.counted /\ lim.l1.before.n >= 1
  /\ lim.l1.before.ttl > 0 /\ lim.l1.before.ttl < WindowMs
  /\ rl[lim.l1.key].n = lim.l1.before.n + 1

\* C16: every counter that exists has an expiry.
C16_NoCounterWithoutExpiry ==
  \A k \in Keys : rl[k].n > 0 => rl[k].ttl > 0

\* C16 witness: a request died between its script call and its TTL read, on a
\* key that other requests had counted on before
C16_AfterCrash ==
  /\ lim.crashed /\ lim.l1.counted
  /\ lim.l1.before.n >= 1
  /\ rl[lim.l1.key].n >= 2

\* C17: a limiter whose script call fails calls the next handler, counts
\* nothing and answers no 429.
C17_FailOpen ==
  /\ \A r \in {lim.l1, lim.l2} : (r.ran /\ ~r.counted) =>
        r.admitted /\ r.cnt = r.before /\ rl[r.key] = r.before
  /\ (lim.route = "public" /\ ~lim.l1.counted /\ ~lim.crashed) =>
        lim.handler /\ lim.status # 429
  /\ (lim.route = "group" /\ lim.l1.ran /\ ~lim.l1.counted) => lim.l2.ran
  /\ (lim.route = "group" /\ lim.l1.ran /\ ~lim.l1.counted
        /\ (lim.l2.admitted \/ ~lim.l2.counted)) => lim.handler

\* C17 witness: the script call failed for a key that is over its quota, and
\* the handler ran
C17_AdmittedOverQuota ==
  /\ lim.route = "public" /\ lim.l1.ran /\ ~lim.l1.counted
  /\ lim.l1.before.n >= lim.l1.max
  /\ lim.handler

\* C18: every 429 of the limiter carries a Retry-After header.
C18_RetryAfterOn429 ==
  lim.status = 429 => lim.retryAfter > 0

\* C19: on a route of the protected group the limiter keyed by the client
\* address runs for every request, whatever the gate makes of its token, and a
\* request over quota is answered 429 without the gate having run.
C19_LimiterBeforeGate ==
  /\ lim.route = "group" => lim.l1.ran
  /\ (lim.route = "group" /\ lim.status = 429) => ~gate.ran

\* C20: in the protected group the handler runs only when both limiters
\* admitted the request; when the first limiter rejects, the second is not
\* invoked, no counter but the first limiter's changes, and the answer is the
\* first limiter's 429.
C20_FirstRejectionWins ==
  /\ [](lim.handler => \A r \in {lim.l1, lim.l2} : r.ran => r.admitted)
  /\ []((lim.route = "group" /\ lim.handler) => lim.l1.admitted /\ lim.l2.admitted)
  /\ []((lim.route = "group" /\ lim.l1.ran /\ ~lim.l1.admitted) =>
          ~lim.l2.ran /\ ~lim.handler /\ lim.status = 429)
  /\ [][(lim'.route = "group" /\ lim'.l1.ran /\ ~lim'.l1.admitted) =>
          \A k \in Keys \ {lim'.l1.key} : rl'[k] = rl[k]]_vars

\* C20 witness: the limiter by address rejected a request of a user whose own
\* counter is under its quota
C20_RejectedByFirst ==
  /\ lim.route = "group" /\ lim.l1.counted /\ ~lim.l1.admitted
  /\ gate.admitted
  /\ rl[KeyByUserID(gate.userID, lim.ip)].n < GroupUserMax

\* C21: a Refresh goes on to return a pair only when its session read
\* succeeded and found a record of the token's principal whose sid is the
\* token's; the request of every pair it returns had passed that check; and a
\* Refresh answered 401 leaves every session record as it was.
C21_RefreshOnlyOnLiveSid ==
  /\ [](\A tok \in Presentable \ {NoToken} : \A rd \in BOOLEAN :
          \A rec \in {session[u] : u \in Users} \cup {NoSession} :
             RefreshCheck(tok, rd, rec) =>
                rd /\ rec.present /\ rec.sid = tok.sid /\ tok.uid \in Users)
  /\ [][(resp'.op = "refresh" /\ resp'.status = 200 /\ req.op # "refresh") =>
          /\ session[resp'.tok.uid].present
          /\ session[resp'.tok.uid].sid = resp'.tok.sid]_vars
  /\ [][(req'.op = "refresh" /\ req.op = "idle") =>
          /\ session[req'.tok.uid].present
          /\ session[req'.tok.uid].sid = req'.tok.sid]_vars
  /\ [][(resp'.op = "refresh" /\ resp'.status # 200) =>
          resp'.status = 401 /\ resp'.pair = 0 /\ session' = session]_vars

\* C21 witness: a Refresh has been rejected while its principal's record is in
\* the store with another sid than a refresh token delivered earlier
C21_StaleRejected ==
  /\ resp.op = "refresh" /\ resp.status = 401 /\ resp.msg = "invalid refresh token"
  /\ \E t \in issued : session[t.uid].present /\ session[t.uid].sid # t.sid

\* C22: when no Refresh is between its session read and its write, the sid of
\* the session record of a principal to whom pairs have been returned is the
\* sid of one of those pairs, and Refresh refuses the refresh token of every
\* other returned pair.
C22_LastWriterIsAReturnedPair ==
  \A u \in Users :
     (req.op = "idle" /\ session[u].present /\ (\E i \in issued : i.uid = u)) =>
        /\ \E i \in issued : i.uid = u /\ i.sid = session[u].sid
        /\ \A i \in issued : (i.uid = u /\ i.sid # session[u].sid) =>
              ~RefreshCheck([kind |-> "refresh", uid |-> u, sid |-> i.sid, ok |-> TRUE],
                            TRUE, session[u])

\* C23: the gate admits no refresh token and Refresh accepts no access token,
\* whatever the session record holds: every token the gate admitted is an
\* access token and every token Refresh rotated is a refresh token.
C23_KindsNotInterchangeable ==
  /\ \A tok \in Presentable, rd \in BOOLEAN :
        /\ tok.kind = "refresh" => ~Auth(tok, rd, SessionOf(tok)).admitted
        /\ tok.kind = "access" => ~RefreshCheck(tok, rd, SessionOf(tok))
  /\ gate.admitted => gate.tok.kind = "access"
  /\ (resp.op = "refresh" /\ resp.status = 200) => resp.tok.kind = "refresh"
  /\ req.op = "refresh" => req.tok.kind = "refresh"

\* C23 witness: the gate has refused, for its signature, a cookie while the
\* refresh token of the live session is in a caller's hands
C23_RefreshTokenAtGate ==
  /\ gate.ran /\ ~gate.admitted /\ gate.detail = "token signature is invalid"
  /\ \E t \in issued : session[t.uid].present /\ session[t.uid].sid = t.sid

\* C24: a login that fails the credential verification is answered 401
\* "invalid credentials" whether the e-mail is unknown or the password wrong,
\* and its step leaves the session records, the codes and the markers alone.
C24_GenericLoginFailure ==
  /\ [](\A email \in Emails, pw \in BOOLEAN :
          Authenticate(email, pw) \in {"", "invalid credentials"})
  /\ []((resp.op = "login" /\ ~resp.credOK) =>
          resp.status = 401 /\ resp.msg = "invalid credentials" /\ resp.pair = 0)
  /\ [][(resp'.op = "login" /\ ~resp'.credOK) =>
          UNCHANGED <<session, otp, trusted, lapsed, nextSid, issued>>]_vars

\* C24 witness: a login has failed while a session record, a code or a marker
\* is in the store
C24_FailedLoginOverState ==
  /\ resp.op = "login" /\ resp.status = 401
  /\ \E u \in Users : session[u].present /\ otp[u].code # <<>>
  /\ trusted # {}

\* C25: the gate answers every access token it cannot verify with the same
\* response, which carries no text of the codec or of the store.
C25_GateRejectionGeneric ==
  (gate.ran /\ ~gate.admitted) => gate.status = 401 /\ gate.detail = ""

\* C26: every session record in the store has an expiry, of at most 24 hours.
C26_SessionAlwaysExpires ==
  \A u \in Users : session[u].present =>
     session[u].ttl > 0 /\ session[u].ttl <= SessionTTL

\* C27: a Refresh that answers 200 has replaced the sid of the principal's
\* session record and reset its lifetime to 24 hours, and has left every other
\* field of the record as it was.
C27_RefreshReplacesSidOnly ==
  [][(resp'.op = "refresh" /\ resp'.status = 200) =>
        session'[resp'.u] = [session[resp'.u] EXCEPT !.sid = resp'.pair,
                                                     !.ttl = SessionTTL]]_vars

(* --------------------------- GenOTPCode on its own ---------------------- *)
\* rand.Read has filled b on a build whose int has w bits
InitOTP ==
  /\ session = [u \in Users |-> NoSession]
  /\ otp = [u \in Users |-> NoOTP]
  /\ trusted = {}
  /\ lapsed = {}
  /\ nextSid = 1
  /\ nextDev = 1
  /\ issued = {}
  /\ req = IdleReq
  /\ resp = NoResp
  /\ gate = NoGate
  /\ rl = [k \in Keys |-> NoCounter]
  /\ lim = NoLim
  /\ rnd \in [b : [1..4 -> ByteSamples], w : IntWidths, code : {<<>>}]
  /\ reset = NoResets

\* lines 27 to 32 of GenOTPCode
GenOTP ==
  /\ rnd.code = <<>>
  /\ rnd.w # 0
  /\ rnd' = [rnd EXCEPT !.code = GenOTPCodeOn(rnd.b, rnd.w)]
  /\ UNCHANGED <<session, otp, trusted, lapsed, nextSid, nextDev, issued, req,
                 resp, gate, rl, lim, reset>>

NextOTP == GenOTP

SpecOTP == InitOTP /\ [][NextOTP]_vars

\* C28: whatever the four bytes and the width of int, GenOTPCode returns the six
\* decimal digits, zero-padded, of the unsigned 32-bit value of the bytes modulo
\* 1000000, and no sign character.
C28_SixDigitsOfUint32 ==
  rnd.code # <<>> => rnd.code = GenOTPCode(Uint32Mod(rnd.b))

\* C29: a limiter whose script call succeeded reports X-RateLimit-Limit = max
\* and X-RateLimit-Remaining = max - count for the counter value count its own
\* increment produced; the remainder is below zero on every call made when the
\* counter had already reached max.
C29_LimitAndRemainingExact ==
  \A r \in {lim.l1, lim.l2} :
     (r.counted /\ ~lim.crashed) =>
        /\ r.limit = r.max
        /\ r.cnt.n = r.before.n + 1
        /\ r.remaining = r.max - r.cnt.n
        /\ (r.before.n >= r.max => r.remaining < 0)

\* a limiter has answered a call beyond its quota with a negative remainder
C29_NegativeRemaining ==
  \E r \in {lim.l1, lim.l2} :
     r.counted /\ ~lim.crashed /\ r.before.n > r.max /\ r.remaining < -1

(* ------------------------ POST /api/login, limited ---------------------- *)
\* rg.POST("/login", loginLimiter, m.Handler.Login): the limiter, and the handler
\* when the limiter called c.Next() (what the handler does is in Spec)
LoginRoute ==
  /\ Quiet
  /\ \E ip \in IPs, s \in StoreOutcomes, t \in StoreOutcomes :
       LET r == loginLimiter(rl, ip, s = "ok", t = "ok")
       IN /\ rl[r.key].n < MaxLoginHits
          /\ rl' = Counted(rl, r)
          /\ lim' = Answer("login", ip, r, NotRun, FALSE)
  /\ gate' = NoGate
  /\ UNCHANGED <<session, otp, trusted, lapsed, nextSid, nextDev, issued, req, resp, rnd, reset>>

NextLogin == LoginRoute \/ Tick \/ Deliver

SpecLogin == Init /\ [][NextLogin]_vars

ResetLink(email, tok) == IF GetByEmail(email) # "" THEN tok ELSE 0

\* AuthHandler.ResetInit for a well-formed e-mail: the lookup, for a user the
\* token stored for 30 minutes (the result of the SET is not looked at), and
\* 200 with the link
ResetInit ==
  /\ Quiet
  /\ \E email \in Emails, w \in StoreOutcomes, tok \in 1..MaxReset :
       LET u == GetByEmail(email)
       IN /\ \A t \in tok..MaxReset : reset[t] = ""
          /\ IF tok = 1 THEN TRUE ELSE reset[tok - 1] # ""
          /\ reset' = IF u # "" /\ w = "ok" THEN [reset EXCEPT ![tok] = u]
                       ELSE reset
          /\ resp' = [NoResp EXCEPT !.op = "resetInit", !.status = 200,
                                    !.link = ResetLink(email, tok)]
  /\ gate' = NoGate
  /\ UNCHANGED <<session, otp, trusted, lapsed, nextSid, nextDev, issued, req, rl, lim, rnd>>

\* a reset token reaches the end of its 30 minutes
ExpireReset(t) ==
  /\ Quiet
  /\ reset[t] # ""
  /\ reset' = [reset EXCEPT ![t] = ""]
  /\ UNCHANGED <<session, otp, trusted, lapsed, nextSid, nextDev, issued, req,
                 resp, gate, rl, lim, rnd>>

NextReset == ResetInit \/ (\E t \in 1..MaxReset : ExpireReset(t)) \/ Deliver

SpecReset == Init /\ [][NextReset]_vars

\* C31: the answer of ResetInit is 200 with the body an address of no account
\* gets, whether or not the submitted address belongs to a user.
C31_ResetInitSameAnswer ==
  resp.op = "resetInit" => resp.status = 200 /\ resp.link = ResetLink("nobody", 1)

\* C32: a login answered with the pending challenge (202) leaves every session
\* record as it was.
C32_ChallengeMintsNoSession ==
  [][(resp'.op = "login" /\ resp'.status = 202) => session' = session]_vars

\* C33: the lifetime of a session record is extended (a later expiry, none at
\* all, or a record where there was none) by login, OTP confirmation and refresh
\* only; in particular no request that went through the auth gate extends it.
C33_OnlyLoginConfirmRefreshExtend ==
  [][\A u \in Users :
       (/\ session'[u].present
        /\ \/ ~session[u].present
           \/ session'[u].ttl = 0 /\ session[u].ttl # 0
           \/ session'[u].ttl > session[u].ttl /\ session[u].ttl # 0)
       => resp'.op \in {"login", "confirm", "refresh"} /\ resp'.u = u]_vars

\* C35: a profile update that completes leaves the session record with a
\* lifetime no shorter than the one it had when the update's pipeline ran, which
\* is the one the most recent login or refresh gave it.
C35_ProfileKeepsExpiry ==
  [][\A u \in Users :
       (resp'.op = "profile" /\ resp'.status = 200 /\ resp'.u = u
          /\ session[u].present /\ session[u].ttl > 0)
       => session'[u].present /\ session'[u].ttl >= session[u].ttl]_vars

(* ------------- a login while an earlier code is still stored ----------- *)
\* a code GenOTPCode returned to an earlier login
PrevCode == GenOTPCode(MaxCode + 1)

\* u1 has logged in without a trusted device: IssueTokens has written the
\* session with sid 1, PrevCode is stored for 10 minutes and was sent by e-mail
InitCodes ==
  /\ session = [u \in Users |-> IF u = "u1" THEN IssueTokensWrite(NoSession, "u1", 1)
                                ELSE NoSession]
  /\ otp = [u \in Users |-> IF u = "u1"
                            THEN [code |-> PrevCode, ttl |-> OTPTTL, used |-> FALSE]
                            ELSE NoOTP]
  /\ trusted = {}
  /\ lapsed = {}
  /\ nextSid = 2
  /\ nextDev = 1
  /\ issued = {}
  /\ req = IdleReq
  /\ resp = NoResp
  /\ gate = NoGate
  /\ rl = [k \in Keys |-> NoCounter]
  /\ lim = NoLim
  /\ rnd = NoDraw
  /\ reset = NoResets

NextCodes ==
  \/ Login
  \/ Confirm \/ ConfirmGet \/ ConfirmConsume
  \/ \E u \in Users : ExpireOTP(u)
  \/ Deliver

SpecCodes == InitCodes /\ [][NextCodes]_vars

\* C34: one code per principal is valid at a time: once a login has been
\* answered with the pending challenge, the stored code of its principal is the
\* code that login generated, with its 10 minutes, and no earlier one; a
\* confirmation succeeds with the stored code only, and with no code once the
\* stored one has expired.
C34_OneCodeAtATime ==
  /\ (resp.op = "login" /\ resp.status = 202) =>
        otp[resp.u].code = resp.code /\ otp[resp.u].ttl = OTPTTL
  /\ \A u \in Users, raw \in CodeInputs :
        ConfirmCheck(TrimSpace(raw), u, TRUE, otp[u].code) = "" =>
           otp[u].code = TrimSpace(raw) /\ otp[u].ttl > 0

(* ----------------- the rate limiter while time goes by ------------------ *)
\* The clock of the store does not wait for requests: time keeps passing
\* however the requests and their answers are scheduled, and every answer that
\* is being written goes out.
SpecRLFair == SpecRL /\ SF_vars(Tick) /\ WF_vars(Deliver)

\* C36: a counter's window does not slide: while the counter exists no request
\* adds to the time it has left, so every counter is gone in the end, a caller
\* being rejected on it included, and the request that finds no counter starts
\* a new window with count 1.
C36_WindowEnds ==
  /\ \A k \in Keys : (rl[k].n > 0) ~> (rl[k].n = 0)
  /\ [][\A k \in Keys : (rl[k].n > 0 /\ rl'[k].n > 0) => rl'[k].ttl <= rl[k].ttl]_vars
  /\ [][\A k \in Keys : (rl[k].n = 0 /\ rl'[k].n > 0) =>
           rl'[k].n = 1 /\ rl'[k].ttl = WindowMs]_vars

\* a request is rejected in the last stretch of a window that began with the
\* first request on its key
C36_RejectedLateInWindow ==
  lim.status = 429 /\ lim.l1.ran /\ ~lim.l1.admitted
    /\ lim.l1.before.ttl > 0 /\ lim.l1.before.ttl <= TickMs

\* C37: a pair returned by a login, an OTP confirmation or a Refresh has its
\* session id in the principal's session record at the moment it is returned.
C37_ReturnedPairIsLive ==
  [][(resp'.pair # 0) =>
        session'[resp'.u].present /\ session'[resp'.u].sid = resp'.pair]_vars

\* C38: whenever the gate admits a request, the user id it puts in the context
\* is not empty and is the subject of the access token it verified.
C38_GateUserIsTokenSubject ==
  (gate.ran /\ gate.admitted) => gate.userID # "" /\ gate.userID = gate.tok.uid

\* C39: every pair delivered for a principal comes from a login of that
\* principal with the right password and a live marker for the device it
\* presented, or from a confirmation whose code matched the stored challenge when
\* it was read, or from a Refresh with the refresh token of a pair delivered
\* before; and a challenge is stored for a principal only by a login of that
\* principal with the right password.
C39_PairsAndChallengesEarned ==
  /\ [][\A i \in issued' \ issued :
          /\ resp'.status = 200 /\ resp'.u = i.uid /\ resp'.pair = i.sid
          /\ resp'.op \in {"login", "confirm", "refresh"}
          /\ resp'.op = "login" =>
                resp'.credOK /\ resp'.dev # 0 /\ HasMarker(i.uid, resp'.dev)
          /\ resp'.op = "confirm" =>
                /\ resp'.code # <<>>
                /\ \/ otp[i.uid].code = resp'.code
                   \/ req.op = "confirm" /\ req.u = i.uid /\ req.code = resp'.code
          /\ resp'.op = "refresh" =>
                \E j \in issued : j.uid = i.uid /\ j.sid = resp'.tok.sid]_vars
  /\ [][(req.op # "confirm" /\ req'.op = "confirm") =>
          req'.code # <<>> /\ otp[req'.u].code = req'.code]_vars
  /\ [][\A u \in Users :
          (otp'[u].code # <<>> /\ otp'[u].code # otp[u].code) =>
             /\ resp'.op = "login" /\ resp'.status = 202
             /\ resp'.u = u /\ resp'.credOK /\ resp'.code = otp'[u].code]_vars
  /\ [](\A i \in issued : i.uid \in Users)

\* a pair has been delivered to a login from a trusted device, a pair of the
\* same principal having been delivered before
C39_TrustedLoginAfterConfirm ==
  /\ resp.op = "login" /\ resp.status = 200 /\ resp.pair # 0
  /\ \E j \in issued : j.uid = resp.u /\ j.sid < resp.pair

\* C40: a confirmation answered with a rejection leaves the challenges, the
\* session records and the trusted markers as they were, and the stored code of
\* every pending challenge still passes the checks of a confirmation afterwards.
C40_RejectedConfirmChangesNothing ==
  /\ [][(resp'.op = "confirm" /\ resp'.status # 200) =>
          /\ otp' = otp /\ session' = session /\ trusted' = trusted
          /\ issued' = issued]_vars
  /\ []((resp.op = "confirm" /\ resp.status # 200) =>
          \A u \in Users : otp[u].code # <<>> =>
             ConfirmCheck(otp[u].code, u, TRUE, otp[u].code) = "")

\* a confirmation has been rejected while a challenge of some principal is
\* pending and a session record exists
C40_RejectedWhilePending ==
  /\ resp.op = "confirm" /\ resp.status = 401 /\ ~resp.badFormat
  /\ \E u \in Users : otp[u].code # <<>> /\ session[u].present

====
